---- MODULE Spec2Model ----
(***************************************************************************)
(* Model of build_linux_mac.py: the orchestrator that builds the four      *)
(* cross toolchains (native MinGW, native ELF, Windows-hosted MinGW,       *)
(* Windows-hosted ELF) by running a fixed list of external commands.       *)
(*                                                                         *)
(* The state is the part of the filesystem the script reads and writes     *)
(* (tarballs/, sources/, build/, the four install prefixes, the archive    *)
(* directory), the set of external processes that are alive, and the       *)
(* position of one invocation of main().  A run is one invocation of the   *)
(* script; the filesystem persists from one run to the next.               *)
(*                                                                         *)
(* The external tools are opaque: a stage exits with status 0 or 1, chosen *)
(* freely.  The configuration file is taken to be a readable JSON document *)
(* that has every key main() looks up.                                     *)
(***************************************************************************)
EXTENDS Naturals, Sequences, FiniteSets, TLC

\* ------------------------------------------------------------------ bounds
\* invocations of the script in one behaviour
MaxRuns == 2
\* flags given to an invocation that does not clean up
MaxFlags == 2
\* consecutive calls of cleanup() applied on their own
MaxCalls == 2

\* --------------------------------------------------------------- constants
\* a directory: whether it exists, and what it holds
Absent == [exists |-> FALSE, entries |-> {}]
Dir(entries) == [exists |-> TRUE, entries |-> entries]

\* the states of an install prefix: Missing, "partial" (some stage wrote into
\* it) or "complete" (the recipe's final stage succeeded and none failed)
Missing == "missing"

BuildFlags == <<"build_mingw", "build_elf", "build_win_mingw", "build_win_elf">>
PackFlags == <<"pack_mingw", "pack_elf", "pack_win_mingw", "pack_win_elf">>
Flags == {BuildFlags[i] : i \in 1..4} \cup {PackFlags[i] : i \in 1..4} \cup {"cleanup"}

\* download_sources fetches these four, in this order
Components == <<"binutils", "gdb", "gcc", "mingw">>
ComponentSet == {Components[i] : i \in 1..4}

PrefixKeys == {"mingw_prefix", "elf_prefix", "mingw_win_prefix", "elf_win_prefix"}

\* The working directory of the script and the configuration document.
\* A path is a sequence of components; an absolute path starts with "/".
Cwd == <<"/", "work">>
config ==
  [mingw_prefix |-> <<"out", "mingw">>,
   elf_prefix |-> <<"out", "elf">>,
   mingw_win_prefix |-> <<"out", "win-mingw">>,
   elf_win_prefix |-> <<"out", "win-elf">>,
   archive_prefix |-> <<"archives">>]

\* os.environ of the script: only PATH matters here
environ == [PATH |-> << <<"/", "usr", "bin">> >>]

mingw_target == "x86_64-w64-mingw32"
elf_target == "x86_64-elf"

\* ------------------------------------------------------------ pure helpers
\* os.path.abspath: a relative path is joined to the working directory
abspath(p) == IF p # <<>> /\ p[1] = "/" THEN p ELSE Cwd \o p

bin(p) == abspath(p) \o <<"bin">>

\* get_build_env with the two prepends of the host compilers exchanged
get_build_env_swapped(env0, prefix, mingw_gcc, elf_gcc, target) ==
  LET e1 == IF mingw_gcc # <<>> THEN <<bin(mingw_gcc)>> \o env0.PATH ELSE env0.PATH
      e2 == IF elf_gcc # <<>> THEN <<bin(elf_gcc)>> \o e1 ELSE e1
  IN  [PREFIX |-> prefix, TARGET |-> target, PATH |-> <<bin(prefix)>> \o e2]

\* get_build_env without the guards on the empty host prefixes
get_build_env_unguarded(env0, prefix, mingw_gcc, elf_gcc, target) ==
  [PREFIX |-> prefix, TARGET |-> target,
   PATH |-> <<bin(prefix), bin(mingw_gcc), bin(elf_gcc)>> \o env0.PATH]

\* get_build_env that ignores the ELF host-compiler prefix
get_build_env_noelf(env0, prefix, mingw_gcc, elf_gcc, target) ==
  LET e2 == IF mingw_gcc # <<>> THEN <<bin(mingw_gcc)>> \o env0.PATH ELSE env0.PATH
  IN  [PREFIX |-> prefix, TARGET |-> target, PATH |-> <<bin(prefix)>> \o e2]

\* get_build_env: env0 is the copy of os.environ it starts from.  An empty
\* string is false in Python, so an empty host prefix adds no entry.
get_build_env(env0, prefix, mingw_gcc, elf_gcc, target) ==
  LET e1 == IF elf_gcc # <<>> THEN <<bin(elf_gcc)>> \o env0.PATH ELSE env0.PATH
      e2 == IF mingw_gcc # <<>> THEN <<bin(mingw_gcc)>> \o e1 ELSE e1
  IN  [PREFIX |-> prefix, TARGET |-> target, PATH |-> <<bin(prefix)>> \o e2]

\* env_copy of build_mingw_toolchain: the base environment plus CC, CXX, CPP
env_copy(env, target) ==
  env @@ [CC |-> <<target, "-gcc">>, CXX |-> <<target, "-g++">>, CPP |-> <<target, "-cpp">>]

\* ----------------------------------------------------------- stage tables
\* One record per subprocess.Popen call of a recipe, in program order.
\*   cmd   the command, without its options
\*   cwd   the cwd= argument ("." when none is given)
\*   env   "env" (the recipe's environment), "env_copy" (with CC, CXX, CPP)
\*         or "inherit" (no env= argument)
\*   wait  how the script waits for the process: "output"
\*         (get_subprocess_output), "wait" (p.wait()) or "none"
\*   dest  the config key of the install prefix the command writes into
\*   hint  the config key of the prefix given as --with-gmp / --with-mpfr
\* a stage table entry whose cp commands are started and not waited for
S_cp_unwaited(name, cmd, cwd, env, wait, dest, hint) ==
  [name |-> name, cmd |-> cmd, cwd |-> cwd, env |-> env,
   wait |-> IF cmd = "cp" THEN "none" ELSE wait, dest |-> dest, hint |-> hint]

\* a stage table entry whose configure commands are run inside the gcc tree
S_insource(name, cmd, cwd, env, wait, dest, hint) ==
  [name |-> name, cmd |-> cmd, cwd |-> IF cmd = "configure" THEN "sources/gcc" ELSE cwd,
   env |-> env, wait |-> wait, dest |-> dest, hint |-> hint]

S(name, cmd, cwd, env, wait, dest, hint) ==
  [name |-> name, cmd |-> cmd, cwd |-> cwd, env |-> env, wait |-> wait,
   dest |-> dest, hint |-> hint]

\* build_mingw_toolchain(prefix = config.mingw_prefix)
build_mingw_toolchain_stages ==
  << S("binutils-configure", "configure", "build/build-binutils-x86_64-w64-mingw32", "env", "output", "", ""),
     S("binutils-build", "gmake", "build/build-binutils-x86_64-w64-mingw32", "env", "output", "", ""),
     S("binutils-install", "gmake install-strip", "build/build-binutils-x86_64-w64-mingw32", "env", "output", "mingw_prefix", ""),
     S("headers-configure", "configure", "build/build-mingw-headers-x86_64-w64-mingw32", "env", "output", "", ""),
     S("headers-install", "gmake install", "build/build-mingw-headers-x86_64-w64-mingw32", "env", "output", "mingw_prefix", ""),
     S("symlink", "ln -s", ".", "inherit", "none", "mingw_prefix", ""),
     S("prerequisites", "contrib/download_prerequisites", "sources/gcc", "env", "output", "", ""),
     S("gcc-configure", "configure", "build/build-gcc-x86_64-w64-mingw32", "env", "output", "", ""),
     S("gcc-build", "gmake all-gcc", "build/build-gcc-x86_64-w64-mingw32", "env", "output", "", ""),
     S("gcc-install", "gmake install-strip-gcc", "build/build-gcc-x86_64-w64-mingw32", "env", "output", "mingw_prefix", ""),
     S("crt-configure", "configure", "build/build-mingw-libs-x86_64-w64-mingw32", "env_copy", "output", "", ""),
     S("crt-build", "gmake", "build/build-mingw-libs-x86_64-w64-mingw32", "env_copy", "output", "", ""),
     S("crt-install", "gmake install-strip", "build/build-mingw-libs-x86_64-w64-mingw32", "env_copy", "output", "mingw_prefix", ""),
     S("winpthreads-configure", "configure", "build/build-mingw-winpthreads-x86_64-w64-mingw32", "env_copy", "output", "", ""),
     S("winpthreads-build", "gmake", "build/build-mingw-winpthreads-x86_64-w64-mingw32", "env_copy", "output", "", ""),
     S("winpthreads-install", "gmake install-strip", "build/build-mingw-winpthreads-x86_64-w64-mingw32", "env_copy", "output", "mingw_prefix", ""),
     S("gcc-libs-build", "gmake", "build/build-gcc-x86_64-w64-mingw32", "env", "output", "", ""),
     S("gcc-libs-install", "gmake install-strip", "build/build-gcc-x86_64-w64-mingw32", "env", "output", "mingw_prefix", "") >>

\* build_elf_toolchain without its download_prerequisites stage
build_elf_toolchain_stages_noprereq ==
  << S("binutils-configure", "configure", "build/build-binutils-x86_64-elf", "env", "output", "", ""),
     S("binutils-build", "gmake", "build/build-binutils-x86_64-elf", "env", "output", "", ""),
     S("binutils-install", "gmake install-strip", "build/build-binutils-x86_64-elf", "env", "output", "elf_prefix", ""),
     S("gcc-configure", "configure", "build/build-gcc-x86_64-elf", "env", "output", "", ""),
     S("gcc-build", "gmake all-gcc", "build/build-gcc-x86_64-elf", "env", "output", "", ""),
     S("gcc-install", "gmake install-strip-gcc", "build/build-gcc-x86_64-elf", "env", "output", "elf_prefix", ""),
     S("libgcc-build", "gmake all-target-libgcc", "build/build-gcc-x86_64-elf", "env", "output", "", ""),
     S("libgcc-install", "gmake install-target-libgcc", "build/build-gcc-x86_64-elf", "env", "output", "elf_prefix", ""),
     S("gmp-install", "gmake install-strip", "build/build-gcc-x86_64-elf/gmp", "env", "output", "elf_prefix", ""),
     S("mpfr-install", "gmake install-strip", "build/build-gcc-x86_64-elf/mpfr", "env", "output", "elf_prefix", ""),
     S("mpc-install", "gmake install-strip", "build/build-gcc-x86_64-elf/mpc", "env", "output", "elf_prefix", ""),
     S("gdb-configure", "configure", "build/build-gdb-x86_64-elf", "env", "output", "", "elf_prefix"),
     S("gdb-build", "gmake all-gdb", "build/build-gdb-x86_64-elf", "env", "output", "", ""),
     S("gdb-install", "gmake install-gdb", "build/build-gdb-x86_64-elf", "env", "output", "elf_prefix", "") >>

\* build_elf_toolchain(prefix = config.elf_prefix)
build_elf_toolchain_stages ==
  << S("binutils-configure", "configure", "build/build-binutils-x86_64-elf", "env", "output", "", ""),
     S("binutils-build", "gmake", "build/build-binutils-x86_64-elf", "env", "output", "", ""),
     S("binutils-install", "gmake install-strip", "build/build-binutils-x86_64-elf", "env", "output", "elf_prefix", ""),
     S("prerequisites", "contrib/download_prerequisites", "sources/gcc", "env", "output", "", ""),
     S("gcc-configure", "configure", "build/build-gcc-x86_64-elf", "env", "output", "", ""),
     S("gcc-build", "gmake all-gcc", "build/build-gcc-x86_64-elf", "env", "output", "", ""),
     S("gcc-install", "gmake install-strip-gcc", "build/build-gcc-x86_64-elf", "env", "output", "elf_prefix", ""),
     S("libgcc-build", "gmake all-target-libgcc", "build/build-gcc-x86_64-elf", "env", "output", "", ""),
     S("libgcc-install", "gmake install-target-libgcc", "build/build-gcc-x86_64-elf", "env", "output", "elf_prefix", ""),
     S("gmp-install", "gmake install-strip", "build/build-gcc-x86_64-elf/gmp", "env", "output", "elf_prefix", ""),
     S("mpfr-install", "gmake install-strip", "build/build-gcc-x86_64-elf/mpfr", "env", "output", "elf_prefix", ""),
     S("mpc-install", "gmake install-strip", "build/build-gcc-x86_64-elf/mpc", "env", "output", "elf_prefix", ""),
     S("gdb-configure", "configure", "build/build-gdb-x86_64-elf", "env", "output", "", "elf_prefix"),
     S("gdb-build", "gmake all-gdb", "build/build-gdb-x86_64-elf", "env", "output", "", ""),
     S("gdb-install", "gmake install-gdb", "build/build-gdb-x86_64-elf", "env", "output", "elf_prefix", "") >>

\* build_win_mingw(prefix = config.mingw_win_prefix, mingw_prefix)
build_win_mingw_stages ==
  << S("binutils-configure", "configure", "build/build-win-binutils-x86_64-w64-mingw32", "env", "output", "", ""),
     S("binutils-build", "gmake", "build/build-win-binutils-x86_64-w64-mingw32", "env", "output", "", ""),
     S("binutils-install", "gmake install-strip", "build/build-win-binutils-x86_64-w64-mingw32", "env", "output", "mingw_win_prefix", ""),
     S("prerequisites", "contrib/download_prerequisites", "sources/gcc", "env", "output", "", ""),
     S("gcc-configure", "configure", "build/build-win-gcc-x86_64-w64-mingw32", "env", "output", "", ""),
     S("gcc-build", "gmake", "build/build-win-gcc-x86_64-w64-mingw32", "env", "output", "", ""),
     S("gcc-install", "gmake install-strip", "build/build-win-gcc-x86_64-w64-mingw32", "env", "output", "mingw_win_prefix", ""),
     S("libgcc-copy", "cp", ".", "inherit", "wait", "mingw_win_prefix", ""),
     S("mingw-configure", "configure", "build/build-mingw-libs-x86_64-w64-mingw32", "env", "output", "", ""),
     S("mingw-build", "gmake", "build/build-mingw-libs-x86_64-w64-mingw32", "env", "output", "", ""),
     S("mingw-install", "gmake install-strip", "build/build-mingw-libs-x86_64-w64-mingw32", "env", "output", "mingw_win_prefix", ""),
     S("libwinpthread-copy", "cp", ".", "inherit", "wait", "mingw_win_prefix", ""),
     S("gmp-install", "gmake install-strip", "build/build-win-gcc-x86_64-w64-mingw32/gmp", "env", "output", "mingw_win_prefix", ""),
     S("mpfr-install", "gmake install-strip", "build/build-win-gcc-x86_64-w64-mingw32/mpfr", "env", "output", "mingw_win_prefix", ""),
     S("mpc-install", "gmake install-strip", "build/build-win-gcc-x86_64-w64-mingw32/mpc", "env", "output", "mingw_win_prefix", "") >>

\* build_win_elf with the gmp, mpfr and mpc installs of build_elf_toolchain
build_win_elf_stages_withlibs ==
  << S("binutils-configure", "configure", "build/build-win-elf-binutils-x86_64-elf", "env", "output", "", ""),
     S("binutils-build", "gmake", "build/build-win-elf-binutils-x86_64-elf", "env", "output", "", ""),
     S("binutils-install", "gmake install-strip", "build/build-win-elf-binutils-x86_64-elf", "env", "output", "elf_win_prefix", ""),
     S("prerequisites", "contrib/download_prerequisites", "sources/gcc", "env", "output", "", ""),
     S("gcc-configure", "configure", "build/build-win-elf-gcc-x86_64-elf", "env", "output", "", ""),
     S("gcc-build", "gmake all-gcc", "build/build-win-elf-gcc-x86_64-elf", "env", "output", "", ""),
     S("gcc-install", "gmake install-strip-gcc", "build/build-win-elf-gcc-x86_64-elf", "env", "output", "elf_win_prefix", ""),
     S("libgcc-build", "gmake all-target-libgcc", "build/build-win-elf-gcc-x86_64-elf", "env", "output", "", ""),
     S("libgcc-install", "gmake install-target-libgcc", "build/build-win-elf-gcc-x86_64-elf", "env", "output", "elf_win_prefix", ""),
     S("gmp-install", "gmake install-strip", "build/build-win-elf-gcc-x86_64-elf", "env", "output", "elf_win_prefix", ""),
     S("mpfr-install", "gmake install-strip", "build/build-win-elf-gcc-x86_64-elf", "env", "output", "elf_win_prefix", ""),
     S("mpc-install", "gmake install-strip", "build/build-win-elf-gcc-x86_64-elf", "env", "output", "elf_win_prefix", ""),
     S("gdb-configure", "configure", "build/build-win-elf-gdb-x86_64-elf", "env", "output", "", "mingw_win_prefix"),
     S("gdb-build", "gmake all-gdb", "build/build-win-elf-gdb-x86_64-elf", "env", "output", "", ""),
     S("gdb-install", "gmake install-gdb", "build/build-win-elf-gdb-x86_64-elf", "env", "output", "elf_win_prefix", "") >>

\* build_win_elf(prefix = config.elf_win_prefix, mingw_prefix, elf_prefix, win_mingw_prefix)
build_win_elf_stages ==
  << S("binutils-configure", "configure", "build/build-win-elf-binutils-x86_64-elf", "env", "output", "", ""),
     S("binutils-build", "gmake", "build/build-win-elf-binutils-x86_64-elf", "env", "output", "", ""),
     S("binutils-install", "gmake install-strip", "build/build-win-elf-binutils-x86_64-elf", "env", "output", "elf_win_prefix", ""),
     S("prerequisites", "contrib/download_prerequisites", "sources/gcc", "env", "output", "", ""),
     S("gcc-configure", "configure", "build/build-win-elf-gcc-x86_64-elf", "env", "output", "", ""),
     S("gcc-build", "gmake all-gcc", "build/build-win-elf-gcc-x86_64-elf", "env", "output", "", ""),
     S("gcc-install", "gmake install-strip-gcc", "build/build-win-elf-gcc-x86_64-elf", "env", "output", "elf_win_prefix", ""),
     S("libgcc-build", "gmake all-target-libgcc", "build/build-win-elf-gcc-x86_64-elf", "env", "output", "", ""),
     S("libgcc-install", "gmake install-target-libgcc", "build/build-win-elf-gcc-x86_64-elf", "env", "output", "elf_win_prefix", ""),
     S("gdb-configure", "configure", "build/build-win-elf-gdb-x86_64-elf", "env", "output", "", "mingw_win_prefix"),
     S("gdb-build", "gmake all-gdb", "build/build-win-elf-gdb-x86_64-elf", "env", "output", "", ""),
     S("gdb-install", "gmake install-gdb", "build/build-win-elf-gdb-x86_64-elf", "env", "output", "elf_win_prefix", "") >>

\* The four recipes in the order main() runs them.
\*   makedirs   the scratch directories the recipe creates before its first stage
\*   needs      the components it looks up with glob.glob('sources/*<name>*')[0]
\*   mingw_gcc, elf_gcc   the host-compiler arguments it gives get_build_env
Recipes ==
  << [flag |-> "build_mingw", stages |-> build_mingw_toolchain_stages,
      prefix |-> "mingw_prefix", target |-> mingw_target,
      mingw_gcc |-> "", elf_gcc |-> "",
      needs |-> {"binutils", "gcc", "mingw"},
      makedirs |-> {"build/build-binutils-x86_64-w64-mingw32",
                    "build/build-gcc-x86_64-w64-mingw32",
                    "build/build-mingw-headers-x86_64-w64-mingw32",
                    "build/build-mingw-libs-x86_64-w64-mingw32",
                    "build/build-mingw-winpthreads-x86_64-w64-mingw32"}],
     [flag |-> "build_elf", stages |-> build_elf_toolchain_stages,
      prefix |-> "elf_prefix", target |-> elf_target,
      mingw_gcc |-> "", elf_gcc |-> "",
      needs |-> {"binutils", "gdb", "gcc"},
      makedirs |-> {"build/build-binutils-x86_64-elf",
                    "build/build-gdb-x86_64-elf",
                    "build/build-gcc-x86_64-elf"}],
     [flag |-> "build_win_mingw", stages |-> build_win_mingw_stages,
      prefix |-> "mingw_win_prefix", target |-> mingw_target,
      mingw_gcc |-> "mingw_prefix", elf_gcc |-> "",
      needs |-> {"binutils", "gcc", "mingw"},
      makedirs |-> {"build/build-win-binutils-x86_64-w64-mingw32",
                    "build/build-win-gcc-x86_64-w64-mingw32",
                    "build/build-win-mingw-headers-x86_64-w64-mingw32",
                    "build/build-win-mingw-libs-x86_64-w64-mingw32",
                    "build/build-win-mingw-winpthreads-x86_64-w64-mingw32"}],
     [flag |-> "build_win_elf", stages |-> build_win_elf_stages,
      prefix |-> "elf_win_prefix", target |-> elf_target,
      mingw_gcc |-> "mingw_prefix", elf_gcc |-> "elf_prefix",
      needs |-> {"binutils", "gdb", "gcc"},
      makedirs |-> {"build/build-win-elf-binutils-x86_64-elf",
                    "build/build-win-elf-gdb-x86_64-elf",
                    "build/build-win-elf-gcc-x86_64-elf"}] >>

\* a config key, or "" for the empty string the native recipes pass
PrefixPath(key) == IF key = "" THEN <<>> ELSE config[key]

\* the environment a recipe composes at its start (env = get_build_env(...))
RecipeEnv(r) ==
  get_build_env(environ, config[Recipes[r].prefix], PrefixPath(Recipes[r].mingw_gcc),
                PrefixPath(Recipes[r].elf_gcc), Recipes[r].target)

\* the environments when env_copy is the recipe's environment itself and not
\* a copy of it: from the first stage with overrides on, every stage sees them
StageEnv_aliased(r, i) ==
  LET st == Recipes[r].stages[i]
      set == \E j \in 1..i : Recipes[r].stages[j].env = "env_copy"
  IN  CASE st.env = "inherit" -> environ
        [] set -> env_copy(RecipeEnv(r), Recipes[r].target)
        [] OTHER -> RecipeEnv(r)

\* the environment of the process stage i of recipe r starts
StageEnv(r, i) ==
  LET st == Recipes[r].stages[i]
  IN  CASE st.env = "env" -> RecipeEnv(r)
        [] st.env = "env_copy" -> env_copy(RecipeEnv(r), Recipes[r].target)
        [] OTHER -> environ

\* gmp/, mpfr/ and mpc/ inside a gcc build directory are made by gcc's own
\* build (the prerequisites are built in-tree); two recipes use them as cwd
InTreeDirs(cwd) ==
  CASE cwd = "build/build-gcc-x86_64-elf" ->
         {"build/build-gcc-x86_64-elf/gmp", "build/build-gcc-x86_64-elf/mpfr",
          "build/build-gcc-x86_64-elf/mpc"}
    [] cwd = "build/build-win-gcc-x86_64-w64-mingw32" ->
         {"build/build-win-gcc-x86_64-w64-mingw32/gmp",
          "build/build-win-gcc-x86_64-w64-mingw32/mpfr",
          "build/build-win-gcc-x86_64-w64-mingw32/mpc"}
    [] OTHER -> {}

\* shutil.rmtree(d, ignore_errors): the tree is gone afterwards; a missing
\* tree raises unless errors are ignored
rmtree(d, ignore_errors) == [dir |-> Absent, raised |-> (d = Absent /\ ~ignore_errors)]

\* cleanup with ignore_errors=False: the first missing tree raises and the
\* remaining trees are left as they are
cleanup_strict(b, s, t) ==
  LET rb == rmtree(b, FALSE)
      rs == rmtree(s, FALSE)
      rt == rmtree(t, FALSE)
  IN  IF rb.raised THEN [build |-> b, sources |-> s, tarballs |-> t, raised |-> TRUE]
      ELSE IF rs.raised THEN [build |-> rb.dir, sources |-> s, tarballs |-> t, raised |-> TRUE]
      ELSE [build |-> rb.dir, sources |-> rs.dir, tarballs |-> rt.dir, raised |-> rt.raised]

\* cleanup(): the three rmtree calls, all with ignore_errors=True
cleanup(b, s, t) ==
  [build |-> rmtree(b, TRUE).dir, sources |-> rmtree(s, TRUE).dir,
   tarballs |-> rmtree(t, TRUE).dir, raised |-> FALSE]

\* download_sources that makes tarballs/ only once the first file is there
download_sources_latemkdir(k) ==
  IF k = 0 THEN Absent ELSE Dir({Components[i] : i \in 1..k})

\* download_sources when the first k fetches succeed: tarballs/ is created
\* before the first fetch and holds what was fetched
download_sources(k) == Dir({Components[i] : i \in 1..k})

\* an output name that leaves out the binary format
archive_name_nofmt(arch, platform, binfmt) == <<arch, "-", platform, "-gcc.tar.xz">>

\* pack_compiler's output name
archive_name(arch, platform, binfmt) == <<arch, "-", platform, "-", binfmt, "-gcc.tar.xz">>

\* platform.machine() and platform.system() of the build machine, lower-cased
arch == "x86_64"
os_name == "linux"

\* pack blocks that label the Windows-hosted archives like the native ones
PackBlocks_hostlabel(a, o) ==
  << [flag |-> "pack_mingw", prefix |-> "mingw_prefix", name |-> archive_name(a, o, "mingw")],
     [flag |-> "pack_elf", prefix |-> "elf_prefix", name |-> archive_name(a, o, "elf")],
     [flag |-> "pack_win_mingw", prefix |-> "mingw_win_prefix", name |-> archive_name(a, o, "mingw")],
     [flag |-> "pack_win_elf", prefix |-> "elf_win_prefix", name |-> archive_name(a, o, "elf")] >>

\* the pack blocks of main(), in program order, on a build machine whose
\* lower-cased platform.machine() is a and platform.system() is o
PackBlocks(a, o) ==
  << [flag |-> "pack_mingw", prefix |-> "mingw_prefix", name |-> archive_name(a, o, "mingw")],
     [flag |-> "pack_elf", prefix |-> "elf_prefix", name |-> archive_name(a, o, "elf")],
     [flag |-> "pack_win_mingw", prefix |-> "mingw_win_prefix", name |-> archive_name("amd64", "windows", "mingw")],
     [flag |-> "pack_win_elf", prefix |-> "elf_win_prefix", name |-> archive_name("amd64", "windows", "elf")] >>

\* the pack blocks on the build machine of the runs
Packs == PackBlocks(arch, os_name)

\* os.makedirs(archive_prefix, exist_ok=True); pack_compiler(...): the archive
\* file is opened for writing (created) before os.listdir(prefix), which
\* raises when the prefix does not exist.  pstate is the state of the prefix.
pack_compiler(archive_dir, pstate, name) ==
  [archives |-> Dir(archive_dir.entries \cup {name}), raised |-> pstate = Missing]

\* ------------------------------------------------------------------- state
VARIABLES
  tarballs,   \* tarballs/: the components whose tarball it holds
  sources,    \* sources/: the components with an extracted tree
  build,      \* build/: the scratch directories in it
  prefix,     \* per install prefix: Missing, "partial" or "complete"
  archives,   \* the archive directory: the archive names in it
  orphans,    \* number of live processes the script started and never waited for
  runs,       \* number of invocations of the script so far
  args,       \* the flags of the current invocation
  pc,         \* position in main()
  rix,        \* index of the recipe or pack block main() is at
  six,        \* index of the stage the recipe is at
  failed,     \* recipes of which some stage exited non-zero in this run
  log,        \* what this run invoked so far, in order
  status,     \* "none" while running, then "ok" or "error" (uncaught exception)
  call,       \* arguments of a function applied on its own
  ret         \* its result

fs == <<tarballs, sources, build, prefix, archives>>
run == <<runs, args, pc, rix, six, failed, log, status>>
vars == <<tarballs, sources, build, prefix, archives, orphans, runs, args, pc, rix, six,
          failed, log, status, call, ret>>

\* -------------------------------------------------------------------- Init
\* A fresh checkout: nothing downloaded, nothing built, no run started.
Init ==
  /\ tarballs = Absent /\ sources = Absent /\ build = Absent
  /\ prefix = [k \in PrefixKeys |-> Missing]
  /\ archives = Absent
  /\ orphans = 0
  /\ runs = 0 /\ args = {} /\ pc = "idle" /\ rix = 0 /\ six = 0
  /\ failed = {} /\ log = <<>> /\ status = "none"
  /\ call = <<>> /\ ret = <<>>

\* ----------------------------------------------------------------- actions
\* the number of external processes alive: the one the script is waiting for
\* and the ones it never waited for
Running == orphans + (IF pc = "wait" THEN 1 ELSE 0)

Logged(e) == \E i \in 1..Len(log) : log[i] = e

\* an uncaught exception ends the run
Raise == pc' = "exit" /\ status' = "error" /\ rix' = 0 /\ six' = 0

\* main() returns
Return == pc' = "exit" /\ status' = "ok" /\ rix' = 0 /\ six' = 0

\* One invocation of the script starts: parse_args and the load of the
\* configuration.
StartRun(a) ==
  /\ pc \in {"idle", "exit"}
  /\ runs < MaxRuns
  /\ "cleanup" \in a \/ Cardinality(a) <= MaxFlags
  /\ runs' = runs + 1
  /\ args' = a
  /\ pc' = "check_cleanup" /\ rix' = 0 /\ six' = 0
  /\ failed' = {} /\ log' = <<>> /\ status' = "none"
  /\ UNCHANGED <<fs, orphans, call, ret>>

\* if args['cleanup'] that falls through to the rest of main()
MainCleanup_fallthrough ==
  /\ pc = "check_cleanup"
  /\ IF "cleanup" \in args
       THEN LET c == cleanup(build, sources, tarballs)
            IN  /\ build' = c.build /\ sources' = c.sources /\ tarballs' = c.tarballs
                /\ log' = Append(log, <<"main", "cleanup">>)
                /\ IF c.raised THEN Raise /\ UNCHANGED <<>>
                   ELSE pc' = "check_tarballs" /\ UNCHANGED <<status, rix, six>>
       ELSE /\ pc' = "check_tarballs"
            /\ UNCHANGED <<build, sources, tarballs, log, status, rix, six>>
  /\ UNCHANGED <<prefix, archives, orphans, runs, args, failed, call, ret>>

\* a cleanup block that removes the install prefixes as well
MainCleanup_rmprefixes ==
  /\ pc = "check_cleanup"
  /\ IF "cleanup" \in args
       THEN LET c == cleanup(build, sources, tarballs)
            IN  /\ build' = c.build /\ sources' = c.sources /\ tarballs' = c.tarballs
                /\ prefix' = [k \in PrefixKeys |-> Missing]
                /\ log' = Append(log, <<"main", "cleanup">>)
                /\ IF c.raised THEN Raise ELSE Return
       ELSE /\ pc' = "check_tarballs"
            /\ UNCHANGED <<build, sources, tarballs, prefix, log, status, rix, six>>
  /\ UNCHANGED <<archives, orphans, runs, args, failed, call, ret>>

\* if args['cleanup']: cleanup(); return
MainCleanup ==
  /\ pc = "check_cleanup"
  /\ IF "cleanup" \in args
       THEN LET c == cleanup(build, sources, tarballs)
            IN  /\ build' = c.build /\ sources' = c.sources /\ tarballs' = c.tarballs
                /\ log' = Append(log, <<"main", "cleanup">>)
                /\ IF c.raised THEN Raise ELSE Return
       ELSE /\ pc' = "check_tarballs"
            /\ UNCHANGED <<build, sources, tarballs, log, status, rix, six>>
  /\ UNCHANGED <<prefix, archives, orphans, runs, args, failed, call, ret>>

\* the download block guarded by the existence of sources/ instead of tarballs/
MainDownload_wrongdir ==
  /\ pc = "check_tarballs"
  /\ IF sources = Absent
       THEN /\ log' = Append(log, <<"main", "download_sources">>)
            /\ \E k \in 0..Len(Components) :
                 /\ tarballs' = download_sources(k)
                 /\ IF k < Len(Components) THEN Raise
                    ELSE pc' = "check_sources" /\ UNCHANGED <<status, rix, six>>
       ELSE /\ pc' = "check_sources"
            /\ UNCHANGED <<tarballs, log, status, rix, six>>
  /\ UNCHANGED <<sources, build, prefix, archives, orphans, runs, args, failed, call, ret>>

\* if not os.path.isdir('tarballs'): download_sources(...)
\* A fetch that fails raises; k is the number of files urlretrieve has
\* written.  A fetch that cannot connect writes no file, one that breaks off
\* leaves its truncated file, so the last of the k files may be the failed one.
MainDownload ==
  /\ pc = "check_tarballs"
  /\ IF tarballs = Absent
       THEN /\ log' = Append(log, <<"main", "download_sources">>)
            /\ \E k \in 0..Len(Components) :
                 /\ tarballs' = download_sources(k)
                 /\ \/ Raise
                    \/ /\ k = Len(Components)
                       /\ pc' = "check_sources" /\ UNCHANGED <<status, rix, six>>
       ELSE /\ pc' = "check_sources"
            /\ UNCHANGED <<tarballs, log, status, rix, six>>
  /\ UNCHANGED <<sources, build, prefix, archives, orphans, runs, args, failed, call, ret>>

\* if not os.path.isdir('sources'): extract_sources()
\* extract_sources makes sources/ and extracts every tarball present; a
\* tarball that cannot be read raises and leaves the trees extracted so far.
MainExtract ==
  /\ pc = "check_sources"
  /\ IF sources = Absent
       THEN /\ log' = Append(log, <<"main", "extract_sources">>)
            /\ \/ /\ sources' = Dir(tarballs.entries)
                  /\ pc' = "recipe" /\ rix' = 1 /\ UNCHANGED <<status, six>>
               \/ /\ tarballs.entries # {}
                  /\ \E done \in SUBSET tarballs.entries : sources' = Dir(done)
                  /\ Raise
       ELSE /\ pc' = "recipe" /\ rix' = 1
            /\ UNCHANGED <<sources, log, status, six>>
  /\ UNCHANGED <<tarballs, build, prefix, archives, orphans, runs, args, failed, call, ret>>

\* main() with the two Windows-hosted recipe blocks exchanged
AfterRecipe_swapped(r) ==
  CASE r = 1 -> pc' = "recipe" /\ rix' = 2 /\ six' = 0
    [] r = 2 -> pc' = "recipe" /\ rix' = 4 /\ six' = 0
    [] r = 4 -> pc' = "recipe" /\ rix' = 3 /\ six' = 0
    [] OTHER -> pc' = "pack" /\ rix' = 1 /\ six' = 0

\* where main() goes after recipe block r
AfterRecipe(r) ==
  IF r < Len(Recipes) THEN pc' = "recipe" /\ rix' = r + 1 /\ six' = 0
  ELSE pc' = "pack" /\ rix' = 1 /\ six' = 0

\* a recipe head that does not look the source trees up before its stages
EnterRecipe_nolookup ==
  /\ pc = "recipe"
  /\ LET R == Recipes[rix]
     IN  IF R.flag \in args
           THEN /\ build' = Dir(build.entries \cup R.makedirs)
                /\ pc' = "popen" /\ six' = 1 /\ UNCHANGED <<rix, status>>
           ELSE AfterRecipe(rix) /\ UNCHANGED <<build, status>>
  /\ UNCHANGED <<tarballs, sources, prefix, archives, orphans, runs, args, failed, log, call, ret>>

\* if args['build_...']: the call of the recipe up to its first Popen: the
\* scratch directories are made, then the source trees are looked up; a
\* component without a tree makes glob(...)[0] raise IndexError.
EnterRecipe ==
  /\ pc = "recipe"
  /\ LET R == Recipes[rix]
     IN  IF R.flag \in args
           THEN /\ build' = Dir(build.entries \cup R.makedirs)
                /\ IF R.needs \subseteq sources.entries
                     THEN pc' = "popen" /\ six' = 1 /\ UNCHANGED <<rix, status>>
                     ELSE Raise
           ELSE AfterRecipe(rix) /\ UNCHANGED <<build, status>>
  /\ UNCHANGED <<tarballs, sources, prefix, archives, orphans, runs, args, failed, log, call, ret>>

\* os.path of a cwd= argument exists
CwdExists(cwd) ==
  \/ cwd = "."
  \/ cwd = "sources/gcc" /\ "gcc" \in sources.entries
  \/ cwd \in build.entries

\* where the recipe goes after stage i
AfterStage(r, i) ==
  IF i < Len(Recipes[r].stages) THEN pc' = "popen" /\ six' = i + 1 /\ rix' = r
  ELSE AfterRecipe(r)

\* subprocess.Popen of the next stage.  A cwd that does not exist raises
\* FileNotFoundError.  A stage the script does not wait for is left running.
Popen ==
  /\ pc = "popen"
  /\ LET st == Recipes[rix].stages[six]
     IN  IF CwdExists(st.cwd)
           THEN /\ log' = Append(log, <<Recipes[rix].flag, st.name>>)
                /\ IF st.wait = "none"
                     THEN orphans' = orphans + 1 /\ AfterStage(rix, six)
                     ELSE pc' = "wait" /\ UNCHANGED <<orphans, rix, six>>
                /\ UNCHANGED status
           ELSE Raise /\ UNCHANGED <<log, orphans>>
  /\ UNCHANGED <<fs, runs, args, failed, call, ret>>

\* what a stage that exited with status rc leaves of the prefix it installs
\* into; last: it is the recipe's final stage and no stage failed before
PrefixAfter(old, rc, last) ==
  IF rc = 0 THEN {IF last THEN "complete" ELSE "partial"}
  ELSE IF old = Missing THEN {Missing, "partial"} ELSE {"partial"}

\* get_subprocess_output(p) or p.wait(): the script blocks until the process
\* has exited.  The exit status rc is never looked at.
Wait ==
  /\ pc = "wait"
  /\ \E rc \in {0, 1} :
       LET R == Recipes[rix]
           st == R.stages[six]
       IN  /\ failed' = IF rc = 0 THEN failed ELSE failed \cup {R.flag}
           /\ IF st.dest # "" /\ st.wait = "output"
                THEN \E p \in PrefixAfter(prefix[st.dest], rc,
                                          six = Len(R.stages) /\ R.flag \notin failed) :
                       prefix' = [prefix EXCEPT ![st.dest] = p]
                ELSE UNCHANGED prefix
           /\ IF st.cmd \in {"gmake", "gmake all-gcc"} /\ InTreeDirs(st.cwd) # {}
                THEN \/ build' = Dir(build.entries \cup InTreeDirs(st.cwd))
                     \/ rc # 0 /\ UNCHANGED build
                ELSE UNCHANGED build
           /\ AfterStage(rix, six)
  /\ UNCHANGED <<tarballs, sources, archives, orphans, runs, args, log, status, call, ret>>

\* a process the script never waited for exits
OrphanExit ==
  /\ orphans > 0
  /\ orphans' = orphans - 1
  /\ UNCHANGED <<fs, run, call, ret>>

\* if args['pack_...']: makedirs(archive_prefix); pack_compiler(...).
\* pack_compiler opens (creates) the archive file first; os.listdir of a
\* prefix that does not exist then raises.
Pack ==
  /\ pc = "pack"
  /\ LET P == Packs[rix]
         after == IF rix < Len(Packs) THEN pc' = "pack" /\ rix' = rix + 1 /\ UNCHANGED <<six, status>>
                  ELSE Return
     IN  IF P.flag \in args
           THEN LET p == pack_compiler(archives, prefix[P.prefix], P.name)
                IN  /\ archives' = p.archives
                    /\ log' = Append(log, <<"main", P.flag>>)
                    /\ IF p.raised THEN Raise ELSE after
           ELSE after /\ UNCHANGED <<archives, log>>
  /\ UNCHANGED <<tarballs, sources, build, prefix, orphans, runs, args, failed, call, ret>>

Next ==
  \/ \E a \in SUBSET Flags : StartRun(a)
  \/ MainCleanup
  \/ MainDownload
  \/ MainExtract
  \/ EnterRecipe
  \/ Popen
  \/ Wait
  \/ OrphanExit
  \/ Pack

Spec == Init /\ [][Next]_vars

\* ------------------------------------------- get_build_env applied on its own
EnvPaths == { <<"out", "mingw">>, <<"out", "elf">>, <<"/", "opt", "cross">> }
EnvAmbient == { << <<"/", "usr", "bin">> >>,
                << <<"/", "usr", "local", "bin">>, <<"/", "bin">> >> }

InitEnv ==
  /\ tarballs = Absent /\ sources = Absent /\ build = Absent
  /\ prefix = [k \in PrefixKeys |-> Missing]
  /\ archives = Absent
  /\ orphans = 0
  /\ runs = 0 /\ args = {} /\ pc = "idle" /\ rix = 0 /\ six = 0
  /\ failed = {} /\ log = <<>> /\ status = "none"
  /\ call \in [prefix : EnvPaths, mingw_gcc : EnvPaths \cup {<<>>},
               elf_gcc : EnvPaths \cup {<<>>}, ambient : EnvAmbient,
               target : {mingw_target, elf_target}]
  /\ ret = <<>>

CallGetBuildEnv ==
  /\ ret = <<>>
  /\ ret' = get_build_env([PATH |-> call.ambient], call.prefix, call.mingw_gcc,
                          call.elf_gcc, call.target)
  /\ UNCHANGED <<fs, orphans, run, call>>

NextEnv == CallGetBuildEnv

SpecEnv == InitEnv /\ [][NextEnv]_vars

\* ------------------------------------------------- cleanup applied on its own
\* any combination of build/, sources/ and tarballs/ present or absent
InitCleanup ==
  /\ tarballs \in {Absent} \cup {download_sources(k) : k \in 0..Len(Components)}
  /\ sources \in {Absent} \cup {Dir(c) : c \in SUBSET ComponentSet}
  /\ build \in {Absent, Dir({})} \cup {Dir(Recipes[r].makedirs) : r \in 1..Len(Recipes)}
  /\ prefix = [k \in PrefixKeys |-> Missing]
  /\ archives = Absent
  /\ orphans = 0
  /\ runs = 0 /\ args = {} /\ pc = "idle" /\ rix = 0 /\ six = 0
  /\ failed = {} /\ log = <<>> /\ status = "none"
  /\ call = [n |-> 0, before |-> <<build, sources, tarballs>>, first |-> <<>>]
  /\ ret = <<>>

CallCleanup ==
  /\ call.n < MaxCalls
  /\ LET c == cleanup(build, sources, tarballs)
     IN  /\ build' = c.build /\ sources' = c.sources /\ tarballs' = c.tarballs
         /\ ret' = [raised |-> c.raised]
         /\ call' = [call EXCEPT !.n = call.n + 1,
                                 !.first = IF call.n = 0
                                             THEN <<c.build, c.sources, c.tarballs>>
                                             ELSE call.first]
  /\ UNCHANGED <<prefix, archives, orphans, run>>

NextCleanup == CallCleanup

SpecCleanup == InitCleanup /\ [][NextCleanup]_vars

\* ------------------------------------------- the pack blocks on their own
\* build machines: (platform.machine(), platform.system()), lower-cased
Hosts == { <<"x86_64", "linux">>, <<"arm64", "darwin">>, <<"amd64", "windows">> }

\* any contents of the four prefixes, an archive directory not yet made
InitPack ==
  /\ tarballs = Absent /\ sources = Absent /\ build = Absent
  /\ prefix \in [PrefixKeys -> {Missing, "partial", "complete"}]
  /\ archives = Absent
  /\ orphans = 0
  /\ runs = 0 /\ args = {} /\ pc = "idle" /\ rix = 0 /\ six = 0
  /\ failed = {} /\ log = <<>> /\ status = "none"
  /\ call \in {[arch |-> h[1], os_name |-> h[2]] : h \in Hosts}
  /\ ret = <<>>

\* the next pack block of main() is applied; ret collects what each produced
CallPack ==
  /\ Len(ret) < Len(PackFlags)
  /\ LET P == PackBlocks(call.arch, call.os_name)[Len(ret) + 1]
         p == pack_compiler(archives, prefix[P.prefix], P.name)
     IN  /\ archives' = p.archives
         /\ ret' = Append(ret, [flag |-> P.flag, name |-> P.name, raised |-> p.raised])
  /\ UNCHANGED <<tarballs, sources, build, prefix, orphans, run, call>>

NextPack == CallPack

SpecPack == InitPack /\ [][NextPack]_vars

\* ================================================================== claims
DL == <<"main", "download_sources">>
EX == <<"main", "extract_sources">>

\* the stages this run invoked, in order
IsStage(e) == e[1] # "main"
StageLog == SelectSeq(log, IsStage)
IsPack(e) == e[1] = "main" /\ e[2] \in {PackFlags[i] : i \in 1..4}
PackLog == SelectSeq(log, IsPack)

\* position of entry e in a search path, 0 when it is not there
IndexOf(path, e) ==
  IF \E i \in 1..Len(path) : path[i] = e
    THEN CHOOSE i \in 1..Len(path) : path[i] = e /\ \A j \in 1..(i - 1) : path[j] # e
    ELSE 0

\* the prefixes of other recipes a recipe reads: the host compilers on its
\* PATH and the prefixes its configure stages are pointed at
Reads(r) ==
  ({Recipes[r].mingw_gcc, Recipes[r].elf_gcc}
     \cup {Recipes[r].stages[i].hint : i \in 1..Len(Recipes[r].stages)})
  \ {"", Recipes[r].prefix}

\* the recipes that write the prefixes recipe r reads
DependsOn(r) == {d \in 1..Len(Recipes) : Recipes[d].prefix \in Reads(r)}

\* C1: a stage is invoked only if every stage before it in its recipe exited
\* with status zero in this run.  (The script is waiting for a stage it has
\* just started, so no earlier stage of that recipe may have failed.)
C1_StageOnlyAfterSuccess ==
  pc = "wait" => Recipes[rix].flag \notin failed

\* C2: once a stage of a recipe has exited non-zero, no recipe that depends on
\* that recipe's install prefix starts a stage in the same run.
C2_NoDependentAfterFailure ==
  pc = "wait" => \A d \in DependsOn(rix) : Recipes[d].flag \notin failed

\* C3: a Windows-hosted recipe invokes its first stage only when every install
\* prefix it reads has been completed by the recipe that writes it.
C3_WinRecipeNeedsCompletePrefixes ==
  (pc = "wait" /\ six = 1 /\ Recipes[rix].flag \in {"build_win_mingw", "build_win_elf"})
    => \A k \in Reads(rix) : prefix[k] = "complete"

\* C4: at most one external process is alive at any time.
C4_AtMostOneProcess == Running <= 1

\* C5: get_build_env(P, mingw_gcc = B, elf_gcc = A) returns PATH = P/bin,
\* then B/bin if B is given, then A/bin if A is given, then the ambient PATH.
C5_PathOrder ==
  ret # <<>> =>
    LET P == abspath(call.prefix) \o <<"bin">>
        B == IF call.mingw_gcc = <<>> THEN <<>> ELSE << abspath(call.mingw_gcc) \o <<"bin">> >>
        A == IF call.elf_gcc = <<>> THEN <<>> ELSE << abspath(call.elf_gcc) \o <<"bin">> >>
    IN  ret.PATH = <<P>> \o B \o A \o call.ambient

C5_Witness ==
  /\ ret # <<>>
  /\ call.mingw_gcc # <<>> /\ call.elf_gcc # <<>> /\ call.mingw_gcc # call.elf_gcc
  /\ call.prefix \notin {call.mingw_gcc, call.elf_gcc}
  /\ Len(ret.PATH) = 3 + Len(call.ambient)

\* the stage the script is waiting for runs with both host compilers on PATH
BothHostCompilers ==
  /\ pc = "wait"
  /\ Recipes[rix].mingw_gcc # "" /\ Recipes[rix].elf_gcc # ""
  /\ Recipes[rix].stages[six].env # "inherit"

ElfBin == abspath(config.elf_prefix) \o <<"bin">>
MingwBin == abspath(config.mingw_prefix) \o <<"bin">>

\* C6 as stated: with both host compilers supplied, the ELF prefix's bin comes
\* before the MinGW prefix's bin in PATH.
C6_ElfBeforeMingw ==
  BothHostCompilers =>
    LET path == StageEnv(rix, six).PATH
    IN  IndexOf(path, ElfBin) > 0 /\ IndexOf(path, ElfBin) < IndexOf(path, MingwBin)

\* C6 amended: with both host compilers supplied, PATH starts with the
\* recipe's own bin, then the MinGW prefix's bin, then the ELF prefix's bin.
C6_MingwBeforeElf ==
  BothHostCompilers =>
    LET path == StageEnv(rix, six).PATH
    IN  /\ IndexOf(path, abspath(config[Recipes[rix].prefix]) \o <<"bin">>) = 1
        /\ IndexOf(path, MingwBin) = 2
        /\ IndexOf(path, ElfBin) = 3

C6_Witness == BothHostCompilers /\ Recipes[rix].flag = "build_win_elf" /\ six = 5

\* C7: a run given --cleanup does nothing but cleanup(): whatever the other
\* flags, it ends normally with build/, sources/ and tarballs/ gone and with
\* no download, extraction, stage or pack invoked.
C7_CleanupOnly ==
  "cleanup" \in args =>
    /\ pc \in {"check_cleanup", "exit"}
    /\ pc = "exit" =>
         /\ log = << <<"main", "cleanup">> >>
         /\ status = "ok"
         /\ build = Absent /\ sources = Absent /\ tarballs = Absent

C7_Witness ==
  /\ pc = "exit" /\ "cleanup" \in args
  /\ {"build_mingw", "pack_mingw", "build_win_elf"} \subseteq args
  /\ runs = 2 /\ prefix["mingw_prefix"] # Missing

\* C8: after one call of cleanup() and after two, the three directories are
\* absent, the end state is the same, and no call raised.
C8_CleanupIdempotent ==
  call.n >= 1 =>
    /\ build = Absent /\ sources = Absent /\ tarballs = Absent
    /\ <<build, sources, tarballs>> = call.first
    /\ ~ret.raised

C8_Witness ==
  /\ call.n = 2
  /\ \A i \in 1..3 : call.before[i] # Absent

\* C9: in a run, download_sources is invoked exactly when tarballs/ is absent
\* at the check, extract_sources exactly when sources/ is absent at the
\* check; a download comes first in the run and an extraction right after it
\* or first, so both precede every stage and every pack.
C9_Order ==
  \A i \in 1..Len(log) :
    /\ log[i] = DL => i = 1
    /\ log[i] = EX => (i = 1 \/ (i = 2 /\ log[1] = DL))

\* a step of the script itself (not the exit of a process nobody waits for)
C9_Step ==
  (pc \notin {"idle", "exit"} /\ run' # run) =>
    /\ Logged(DL)' <=> (Logged(DL) \/ (pc = "check_tarballs" /\ tarballs = Absent))
    /\ Logged(EX)' <=> (Logged(EX) \/ (pc = "check_sources" /\ sources = Absent))

\* C9: the order of download and extraction holds in every state and the two
\* presence checks decide them at every step of the script.
C9_DownloadExtract == []C9_Order /\ [][C9_Step]_vars

\* a run that skipped the download and extracted
C9_Witness == pc = "recipe" /\ log = <<EX>> /\ tarballs # Absent

\* C10: a run given exactly --build_mingw --pack_mingw that gets to the recipe
\* invokes exactly the stages of the native MinGW recipe, in order, then packs
\* once, leaving the mingw archive in the archive directory; no step of the
\* run changes another recipe's install prefix.
C10_Args == {"build_mingw", "pack_mingw"}

C10_Stages ==
  << "binutils-configure", "binutils-build", "binutils-install",
     "headers-configure", "headers-install", "symlink", "prerequisites",
     "gcc-configure", "gcc-build", "gcc-install",
     "crt-configure", "crt-build", "crt-install",
     "winpthreads-configure", "winpthreads-build", "winpthreads-install",
     "gcc-libs-build", "gcc-libs-install" >>

C10_End ==
  (pc = "exit" /\ args = C10_Args /\ (status = "ok" \/ StageLog # <<>>)) =>
    /\ StageLog = [i \in 1..Len(C10_Stages) |-> <<"build_mingw", C10_Stages[i]>>]
    /\ PackLog = << <<"main", "pack_mingw">> >>
    /\ log[Len(log)] = <<"main", "pack_mingw">>
    /\ <<"x86_64", "-", "linux", "-", "mingw", "-gcc.tar.xz">> \in archives.entries

C10_Frame ==
  (args = C10_Args /\ pc \notin {"idle", "exit"}) =>
    /\ \A k \in PrefixKeys \ {"mingw_prefix"} : prefix'[k] = prefix[k]
    /\ archives'.entries \subseteq
         archives.entries \cup {<<"x86_64", "-", "linux", "-", "mingw", "-gcc.tar.xz">>}

\* C10: the end-of-run statement about stages and archive, and the frame
\* statement about the other install prefixes at every step.
C10_BuildAndPackMingw == []C10_End /\ [][C10_Frame]_vars

C10_Witness ==
  /\ pc = "exit" /\ args = C10_Args /\ status = "ok"
  /\ prefix["mingw_prefix"] = "complete"

\* C11: every pack block writes into the archive directory the name
\* <arch>-<platform>-<binfmt>-gcc.tar.xz of its label, whatever the prefix
\* holds: the host's arch and OS for the native variants, amd64 and windows
\* for the Windows-hosted ones; on a host other than amd64/windows the four
\* names are distinct.
C11_Labels ==
  << <<call.arch, call.os_name, "mingw">>, <<call.arch, call.os_name, "elf">>,
     <<"amd64", "windows", "mingw">>, <<"amd64", "windows", "elf">> >>

C11_ArchiveNames ==
  /\ \A i \in 1..Len(ret) :
       /\ ret[i].flag = PackFlags[i]
       /\ ret[i].name = <<C11_Labels[i][1], "-", C11_Labels[i][2], "-", C11_Labels[i][3],
                          "-gcc.tar.xz">>
       /\ ret[i].name \in archives.entries
  /\ Cardinality(archives.entries) <= Len(ret)
  /\ (Len(ret) = Len(PackFlags) /\ <<call.arch, call.os_name>> # <<"amd64", "windows">>)
       => Cardinality(archives.entries) = Len(PackFlags)

C11_Witness ==
  /\ Len(ret) = 4 /\ call.arch = "arm64"
  /\ prefix["mingw_prefix"] = "complete" /\ prefix["elf_prefix"] = Missing
  /\ ret[2].raised /\ Cardinality(archives.entries) = 4

\* the names of the stages recipe f invoked in this run, in order
StagesOf(f) ==
  LET OfRecipe(e) == e[1] = f
      l == SelectSeq(log, OfRecipe)
  IN  [i \in 1..Len(l) |-> l[i][2]]

\* the stage names of a stage table, in order
NamesOf(stages) == [i \in 1..Len(stages) |-> stages[i].name]

IsPrefix(s, t) == Len(s) <= Len(t) /\ \A i \in 1..Len(s) : s[i] = t[i]

\* the run got through main() to its end (a run given --cleanup returns early)
Ended == pc = "exit" /\ status = "ok" /\ "cleanup" \notin args

\* C12 as stated: a run in which some stage exited non-zero ends with a
\* non-zero status; a run that ends with status zero had every stage exit zero.
C12_ExitStatus == pc = "exit" => (failed # {} => status = "error")

\* C13 as stated: the native ELF recipe invokes binutils configure, build,
\* install; gcc configure, driver build, install; libgcc build, install; gmp,
\* mpfr, mpc install; gdb configure, build, install, and nothing else.
C13_ElfDocumented ==
  << "binutils-configure", "binutils-build", "binutils-install",
     "gcc-configure", "gcc-build", "gcc-install",
     "libgcc-build", "libgcc-install",
     "gmp-install", "mpfr-install", "mpc-install",
     "gdb-configure", "gdb-build", "gdb-install" >>

C13_MingwDocumented ==
  << "binutils-configure", "binutils-build", "binutils-install",
     "headers-configure", "headers-install", "symlink", "prerequisites",
     "gcc-configure", "gcc-build", "gcc-install",
     "crt-configure", "crt-build", "crt-install",
     "winpthreads-configure", "winpthreads-build", "winpthreads-install",
     "gcc-libs-build", "gcc-libs-install" >>

C13_DocumentedOrder ==
  /\ IsPrefix(StagesOf("build_elf"), C13_ElfDocumented)
  /\ IsPrefix(StagesOf("build_mingw"), C13_MingwDocumented)

\* C13 amended: the native ELF recipe also fetches the compiler prerequisites,
\* between the install of binutils and the configure of gcc; with that stage
\* added both native recipes invoke exactly the documented stages in the
\* documented order, and a run that ends normally has invoked all of them.
C13_ElfActual ==
  SubSeq(C13_ElfDocumented, 1, 3) \o <<"prerequisites">> \o SubSeq(C13_ElfDocumented, 4, 14)

C13_NativeOrder ==
  /\ IsPrefix(StagesOf("build_elf"), C13_ElfActual)
  /\ IsPrefix(StagesOf("build_mingw"), C13_MingwDocumented)
  /\ (Ended /\ "build_elf" \in args) => StagesOf("build_elf") = C13_ElfActual
  /\ (Ended /\ "build_mingw" \in args) => StagesOf("build_mingw") = C13_MingwDocumented

C13_Witness ==
  /\ Ended /\ args = {"build_mingw", "build_elf"}
  /\ Len(StagesOf("build_elf")) = 15 /\ Len(StagesOf("build_mingw")) = 18

\* C14 as stated: build_win_mingw runs the stage sequence of the native MinGW
\* recipe.
C14_SameAsNativeMingw ==
  IsPrefix(StagesOf("build_win_mingw"), NamesOf(build_mingw_toolchain_stages))

\* C14 amended: build_win_mingw runs binutils configure, build, install; the
\* fetch of the prerequisites; gcc configure, a full gcc build, install; the
\* copy of the libgcc DLL; mingw-w64 configure, build, install; the copy of the
\* libwinpthread DLL; gmp, mpfr, mpc install.  Every stage given the recipe's
\* environment has PATH = own prefix bin, native MinGW prefix bin, ambient PATH.
C14_WinMingwActual ==
  << "binutils-configure", "binutils-build", "binutils-install", "prerequisites",
     "gcc-configure", "gcc-build", "gcc-install", "libgcc-copy",
     "mingw-configure", "mingw-build", "mingw-install", "libwinpthread-copy",
     "gmp-install", "mpfr-install", "mpc-install" >>

C14_WinMingwOrder ==
  /\ IsPrefix(StagesOf("build_win_mingw"), C14_WinMingwActual)
  /\ (Ended /\ "build_win_mingw" \in args) => StagesOf("build_win_mingw") = C14_WinMingwActual
  /\ (pc = "wait" /\ Recipes[rix].flag = "build_win_mingw")
       => /\ Recipes[rix].stages[six].name = C14_WinMingwActual[six]
          /\ (Recipes[rix].stages[six].name = "gcc-build"
                => Recipes[rix].stages[six].cmd = "gmake")
          /\ (Recipes[rix].stages[six].env = "env"
                => StageEnv(rix, six).PATH
                     = <<bin(config.mingw_win_prefix), bin(config.mingw_prefix)>> \o environ.PATH)

C14_Witness ==
  /\ Ended /\ "build_win_mingw" \in args
  /\ Len(StagesOf("build_win_mingw")) = 15

\* C15 as stated: build_win_elf runs the stage sequence of the native ELF
\* recipe, the gmp, mpfr and mpc installs included.
C15_SameAsNativeElf ==
  IsPrefix(StagesOf("build_win_elf"), NamesOf(build_elf_toolchain_stages))

\* C15 amended: build_win_elf runs the stage sequence of the native ELF recipe
\* without the gmp, mpfr and mpc installs: after the install of libgcc it goes
\* straight to the configure of gdb.
C15_WinElfActual ==
  << "binutils-configure", "binutils-build", "binutils-install", "prerequisites",
     "gcc-configure", "gcc-build", "gcc-install", "libgcc-build", "libgcc-install",
     "gdb-configure", "gdb-build", "gdb-install" >>

C15_WinElfOrder ==
  /\ IsPrefix(StagesOf("build_win_elf"), C15_WinElfActual)
  /\ (Ended /\ "build_win_elf" \in args) => StagesOf("build_win_elf") = C15_WinElfActual
  /\ \A i \in 1..Len(StagesOf("build_win_elf")) :
       StagesOf("build_win_elf")[i] \notin {"gmp-install", "mpfr-install", "mpc-install"}

C15_Witness ==
  /\ Ended /\ "build_win_elf" \in args
  /\ Len(StagesOf("build_win_elf")) = 12

\* the stage table entry a log entry of a stage stands for
StageOfEntry(e) ==
  LET r == CHOOSE r \in 1..Len(Recipes) : Recipes[r].flag = e[1]
      i == CHOOSE i \in 1..Len(Recipes[r].stages) : Recipes[r].stages[i].name = e[2]
  IN  Recipes[r].stages[i]

\* the script is waiting for stage n of recipe f
Waiting(f, n) ==
  pc = "wait" /\ Recipes[rix].flag = f /\ Recipes[rix].stages[six].name = n

\* C16: the gdb configure of build_win_elf is given the Windows-hosted MinGW
\* prefix as its gmp/mpfr hint, never its own prefix or a native one; in a run
\* that also builds the Windows-hosted MinGW toolchain, the gmp and mpfr
\* installs of that recipe were invoked and waited for before it.
C16_GdbHints ==
  \A i \in 1..Len(log) :
    log[i] = <<"build_win_elf", "gdb-configure">> =>
      /\ StageOfEntry(log[i]).hint = "mingw_win_prefix"
      /\ StageOfEntry(log[i]).hint \notin {"elf_win_prefix", "elf_prefix", "mingw_prefix"}
      /\ "build_win_mingw" \in args =>
           \A n \in {"gmp-install", "mpfr-install"} :
             \E j \in 1..(i - 1) :
               /\ log[j] = <<"build_win_mingw", n>>
               /\ StageOfEntry(log[j]).wait = "output"
               /\ StageOfEntry(log[j]).dest = "mingw_win_prefix"

C16_Witness ==
  /\ Waiting("build_win_elf", "gdb-configure")
  /\ args = {"build_win_mingw", "build_win_elf"}

\* C17 as stated: the environment of the stages of build_win_elf has the
\* native MinGW prefix's bin in PATH and no entry of the native ELF prefix.
C17_NoElfInPath ==
  (pc = "wait" /\ Recipes[rix].flag = "build_win_elf" /\ Recipes[rix].stages[six].env = "env")
    => LET path == StageEnv(rix, six).PATH
       IN  IndexOf(path, MingwBin) > 0 /\ IndexOf(path, ElfBin) = 0

\* C17 amended: build_win_elf passes the native ELF prefix to get_build_env,
\* so every stage of it has both the native MinGW prefix's bin and the native
\* ELF prefix's bin in PATH.
C17_ElfInPath ==
  (pc = "wait" /\ Recipes[rix].flag = "build_win_elf")
    => /\ Recipes[rix].stages[six].env = "env"
       /\ LET path == StageEnv(rix, six).PATH
          IN  /\ Len(path) = 3 + Len(environ.PATH)
              /\ \E i, j \in 1..Len(path) : path[i] = MingwBin /\ path[j] = ElfBin

C17_Witness == Waiting("build_win_elf", "libgcc-build")

\* C18 as stated: no stage has a source tree as its working directory.
C18_NoStageInSources ==
  \A i \in 1..Len(log) :
    IsStage(log[i]) => StageOfEntry(log[i]).cwd # "sources/gcc"

\* C18 amended: the fetch of the compiler prerequisites, which every recipe
\* runs once, has the gcc source tree as its working directory (and writes
\* into it); every other stage runs in a scratch directory under build/ or in
\* the directory of the script, and installs into a prefix only.
C18_ScratchDirs ==
  UNION {Recipes[r].makedirs \cup UNION {InTreeDirs(d) : d \in Recipes[r].makedirs}
           : r \in 1..Len(Recipes)}

C18_OnlyPrerequisitesInSources ==
  /\ \A i \in 1..Len(log) :
       IsStage(log[i]) =>
         LET st == StageOfEntry(log[i])
         IN  /\ st.cwd = "sources/gcc" <=> st.name = "prerequisites"
             /\ st.cwd # "sources/gcc" => st.cwd \in C18_ScratchDirs \cup {"."}
             /\ st.dest \in PrefixKeys \cup {""}
  /\ \A r \in 1..Len(Recipes) : (Ended /\ Recipes[r].flag \in args) =>
       Cardinality({i \in 1..Len(log) : log[i] = <<Recipes[r].flag, "prerequisites">>}) = 1

C18_Witness == Waiting("build_elf", "prerequisites") /\ "gcc" \in sources.entries

\* C19 as stated: no two recipes run a stage in the same scratch directory,
\* and no recipe installs into the prefix of another.
C19_OneRecipePerDirectory ==
  \A i, j \in 1..Len(log) :
    (IsStage(log[i]) /\ IsStage(log[j]) /\ log[i][1] # log[j][1]) =>
      LET a == StageOfEntry(log[i])
          b == StageOfEntry(log[j])
      IN  /\ a.cwd \notin {".", "sources/gcc"} => a.cwd # b.cwd
          /\ a.dest # "" => a.dest # b.dest

\* the build flag of the recipe that fills the prefix pack flag p archives
BuildOf(p) ==
  LET k == CHOOSE k \in 1..Len(Packs) : Packs[k].flag = p
      r == CHOOSE r \in 1..Len(Recipes) : Recipes[r].prefix = Packs[k].prefix
  IN  Recipes[r].flag

\* C20 as stated: in a run with both --build_X and --pack_X the prefix of X is
\* packed only after the final stage of X, and never when a stage of X exited
\* non-zero in that run.
C20_PackOnlyComplete ==
  \A i \in 1..Len(log) :
    (IsPack(log[i]) /\ BuildOf(log[i][2]) \in args) =>
      /\ BuildOf(log[i][2]) \notin failed
      /\ \E j \in 1..(i - 1) : log[j] = <<BuildOf(log[i][2]), "gdb-install">>
                                 \/ log[j] = <<BuildOf(log[i][2]), "gcc-libs-install">>
                                 \/ log[j] = <<BuildOf(log[i][2]), "mpc-install">>

\* C21 as stated: after a cleanup run no partial state of a failed recipe is
\* left: the scratch directories are gone and no install prefix is half
\* populated.
C21_CleanupRemovesPartialPrefix ==
  (pc = "exit" /\ "cleanup" \in args)
    => build = Absent /\ \A k \in PrefixKeys : prefix[k] # "partial"

\* C21 amended: a half-populated install prefix stays on disk across every
\* later run, cleanup runs included: cleanup() removes build/, sources/ and
\* tarballs/ and leaves the install prefixes as they are; a prefix changes only
\* when a stage that installs into it has run, and a half-populated one is
\* never emptied.
C21_Step ==
  /\ (pc = "check_cleanup" /\ "cleanup" \in args /\ run' # run)
       => /\ prefix' = prefix
          /\ build' = Absent /\ sources' = Absent /\ tarballs' = Absent
  /\ \A k \in PrefixKeys :
       /\ prefix[k] = "partial" => prefix'[k] # Missing
       /\ prefix'[k] # prefix[k]
            => pc = "wait" /\ Recipes[rix].stages[six].dest = k

C21_PartialPrefixPersists == [][C21_Step]_vars

C21_Witness ==
  /\ pc = "exit" /\ "cleanup" \in args /\ status = "ok"
  /\ prefix["mingw_prefix"] = "partial" /\ build = Absent

\* the call of recipe r has returned in this run
Returned(r) ==
  /\ Recipes[r].flag \in args /\ "cleanup" \notin args
  /\ \/ pc \in {"recipe", "popen", "wait"} /\ rix > r
     \/ pc = "pack"
     \/ pc = "exit" /\ status = "ok"

\* C22: in build_win_mingw the copy of the libgcc DLL is started right after
\* the gcc install has been waited for, the copy of the libwinpthread DLL right
\* after the mingw-w64 install has been waited for; the script waits for each
\* copy before it starts the next stage, and both copies have been run when
\* the recipe returns.
C22_CopiesLogged ==
  /\ \A i \in 1..Len(log) :
       /\ log[i] = <<"build_win_mingw", "libgcc-copy">>
            => /\ i > 1 /\ log[i - 1] = <<"build_win_mingw", "gcc-install">>
               /\ StageOfEntry(log[i - 1]).wait # "none"
       /\ log[i] = <<"build_win_mingw", "libwinpthread-copy">>
            => /\ i > 1 /\ log[i - 1] = <<"build_win_mingw", "mingw-install">>
               /\ StageOfEntry(log[i - 1]).wait # "none"
       /\ (IsStage(log[i]) /\ StageOfEntry(log[i]).cmd = "cp")
            => StageOfEntry(log[i]).wait = "wait"
  /\ Returned(3) =>
       /\ Logged(<<"build_win_mingw", "libgcc-copy">>)
       /\ Logged(<<"build_win_mingw", "libwinpthread-copy">>)

C22_Step ==
  (pc = "popen" /\ run' # run /\ Recipes[rix].stages[six].cmd = "cp" /\ pc' # "exit")
    => /\ pc' = "wait" /\ rix' = rix /\ six' = six
       /\ orphans' = orphans
       /\ log' = Append(log, <<"build_win_mingw", Recipes[rix].stages[six].name>>)

C22_DllCopies == []C22_CopiesLogged /\ [][C22_Step]_vars

C22_Witness ==
  /\ Returned(3) /\ pc = "recipe" /\ rix = 4
  /\ Logged(<<"build_win_mingw", "libwinpthread-copy">>)

\* the CRT and winpthreads stages of build_mingw_toolchain
C23_OverrideStages ==
  {"crt-configure", "crt-build", "crt-install",
   "winpthreads-configure", "winpthreads-build", "winpthreads-install"}

C23_Overrides == {"CC", "CXX", "CPP"}

\* C23 as stated: the six CRT and winpthreads stages of the native MinGW
\* recipe run with the overrides, every other stage of it with the recipe's
\* base environment.
C23_BaseEnvironmentElsewhere ==
  \A i \in 1..Len(StagesOf("build_mingw")) :
    LET st == Recipes[1].stages[i]
    IN  IF st.name \in C23_OverrideStages
          THEN C23_Overrides \subseteq DOMAIN StageEnv(1, i)
          ELSE StageEnv(1, i) = RecipeEnv(1)

\* C23 amended: CC, CXX and CPP are in the environment of exactly the six CRT
\* and winpthreads stages, set to the target-prefixed gcc, g++ and cpp, the
\* rest of that environment being the recipe's base environment; the symlink
\* stage is started without an environment argument and inherits the ambient
\* environment; every other stage runs with the recipe's base environment,
\* which holds no override.
C23_OverridesInSixStages ==
  /\ C23_Overrides \cap DOMAIN RecipeEnv(1) = {}
  /\ \A i \in 1..Len(StagesOf("build_mingw")) :
       LET st == Recipes[1].stages[i]
           e == StageEnv(1, i)
       IN  /\ st.name = StagesOf("build_mingw")[i]
           /\ st.name \in C23_OverrideStages <=> C23_Overrides \cap DOMAIN e # {}
           /\ st.name \in C23_OverrideStages =>
                /\ e.CC = <<mingw_target, "-gcc">>
                /\ e.CXX = <<mingw_target, "-g++">>
                /\ e.CPP = <<mingw_target, "-cpp">>
                /\ DOMAIN e = DOMAIN RecipeEnv(1) \cup C23_Overrides
                /\ \A v \in DOMAIN RecipeEnv(1) : e[v] = RecipeEnv(1)[v]
           /\ st.name = "symlink" => e = environ
           /\ st.name \notin C23_OverrideStages \cup {"symlink"} => e = RecipeEnv(1)

C23_Witness == Waiting("build_mingw", "gcc-libs-build")

\* recipe r is requested and a component it looks up has no tree in sources/
LacksTree(r) == Recipes[r].flag \in args /\ ~(Recipes[r].needs \subseteq sources.entries)

\* main() is past the download and the extraction of a run without --cleanup
InRecipes == pc \in {"recipe", "popen", "wait", "pack", "exit"} /\ "cleanup" \notin args

\* C24: when a requested recipe needs a component that has no tree under
\* sources/, the run ends with an error before that recipe invokes a stage:
\* neither it nor a later recipe invokes any stage, no pack is performed, and
\* the run does not end normally.
C24_NoStageWithoutTree ==
  /\ pc \in {"popen", "wait"} => Recipes[rix].needs \subseteq sources.entries
  /\ \A r \in 1..Len(Recipes) :
       (InRecipes /\ LacksTree(r)) =>
         /\ \A q \in r..Len(Recipes) : StagesOf(Recipes[q].flag) = <<>>
         /\ PackLog = <<>>
         /\ pc \in {"recipe", "popen", "wait"} => rix <= r
         /\ pc # "pack"
         /\ pc = "exit" => status = "error"

C24_Step ==
  (pc = "recipe" /\ run' # run /\ LacksTree(rix))
    => pc' = "exit" /\ status' = "error" /\ log' = log

C24_MissingTreeIsFatal == []C24_NoStageWithoutTree /\ [][C24_Step]_vars

C24_Witness ==
  /\ pc = "exit" /\ status = "error" /\ log = <<>>
  /\ args = {"build_elf", "pack_elf"}
  /\ sources.exists /\ "gdb" \notin sources.entries /\ "binutils" \in sources.entries
  /\ "build/build-gdb-x86_64-elf" \in build.entries

\* C25: a download that failed is not repaired by running again.  The failed
\* run leaves tarballs/ on disk, whatever it fetched; while tarballs/ exists
\* no run downloads; only the cleanup block removes tarballs/; and an
\* extraction yields trees of tarballs that are present only.
C25_FailedDownloadLeavesDirectory ==
  (pc = "exit" /\ Len(log) > 0 /\ log[Len(log)] = DL) => tarballs.exists

C25_Step ==
  /\ (~Logged(DL) /\ log' = Append(log, DL)) => ~tarballs.exists
  /\ (tarballs.exists /\ run' # run /\ pc # "check_cleanup") =>
       /\ tarballs' = tarballs
       /\ ~(log' = Append(log, DL))
  /\ (tarballs.exists /\ ~tarballs'.exists) =>
       pc = "check_cleanup" /\ "cleanup" \in args
  /\ (~Logged(EX) /\ log' = Append(log, EX)) =>
       /\ ~sources.exists /\ sources'.exists
       /\ sources'.entries \subseteq tarballs.entries
       /\ pc' # "exit" => sources'.entries = tarballs.entries

C25_NoRepair == []C25_FailedDownloadLeavesDirectory /\ [][C25_Step]_vars

\* a later run has skipped the download of an incomplete tarballs/ and has
\* extracted what is there
C25_Witness ==
  /\ runs = 2 /\ pc = "recipe" /\ log = <<EX>>
  /\ tarballs = Dir({"binutils", "gdb"}) /\ sources = tarballs

\* the directories build_win_mingw makes for itself, with the gmp, mpfr and
\* mpc directories its own gcc build makes inside them
C26_OwnScratchDirs ==
  Recipes[3].makedirs \cup UNION {InTreeDirs(d) : d \in Recipes[3].makedirs}

\* C26 as stated: every scratch directory a stage of build_win_mingw is started
\* in was made by build_win_mingw itself, so the directory of the stage it is
\* about to start is never one that only another recipe makes.
C26_WinMingwScratchSelfCreated ==
  (pc = "popen" /\ Recipes[rix].flag = "build_win_mingw")
    => LET cwd == Recipes[rix].stages[six].cwd
       IN  cwd \in C26_OwnScratchDirs \cup {".", "sources/gcc"}

====
